---- MODULE Spec2Model ----
(***************************************************************************)
(* Model of the statistics page of the student manager                     *)
(* (src/student-manager/src/pages/Stats.tsx).                              *)
(*                                                                         *)
(* Dates are day numbers: day 0 is 2024-01-01 (a Monday), the start of the *)
(* 'all' period.  A session_date string 'YYYY-MM-DD' and the date part of  *)
(* a created_at timestamp are both held as the day number of that calendar *)
(* day; the page's Date values startOfX (00:00:00.000) and endOfX          *)
(* (23:59:59.999) are held as the day they fall on, so `a <= b` on Dates   *)
(* is `a <= b` on days.  The browser's time zone is taken to be the one    *)
(* the timestamps are written in.  The calendar day changes only by the    *)
(* action Tick, which the specification SpecMemo takes and the others do   *)
(* not.                                                                    *)
(*                                                                         *)
(* The daily dashboard (src/student-manager/src/pages/Dashboard.tsx) is    *)
(* modelled by the variables from dashRecords on: its state hooks, the     *)
(* tables of the store it reads and writes, and its requests in flight.    *)
(*                                                                         *)
(* A nullable number (session_date, duration_minutes) is a sequence of     *)
(* length 0 (null) or 1.  Identifiers are strings; a null group_id is the  *)
(* string "null" and the selectors' 'all' is the string "all".             *)
(***************************************************************************)
EXTENDS Integers, Sequences, FiniteSets, TLC

VARIABLES
    now,                \* the current calendar day, new Date()
    records,            \* useState<MyRecord[]>
    students,           \* useState<Student[]>
    groups,             \* useState<Group[]>
    loading,            \* useState(true)
    period,             \* useState<TimePeriod>('month')
    statsMode,          \* useState<StatsMode>('group')
    selectedGroupId,    \* useState<number | 'all'>('all')
    selectedStudentId,  \* useState<string | 'all'>('all')
    selectedDate,       \* useState<Date>(new Date())
    expectedSessionsMemo, \* the value held by useMemo(..., [period])
    dashRecords,        \* Dashboard: useState<MyRecord[]>
    dashStudents,       \* Dashboard: useState<Student[]>
    absences,           \* Dashboard: useState<StudentAbsence[]>
    dashLoading,        \* Dashboard: useState(true)
    error,              \* Dashboard: useState<string | null>(null)
    dashSelectedDate,   \* Dashboard: useState<string>(format(new Date(), ...))
    storeRecords,       \* the table myrecords, created_at descending
    storeStudents,      \* the table students
    storeAbsences,      \* the table student_absences
    writesAwaited,      \* writes sent by a handler that still awaits the answer, executed or not
    inFlight            \* the fetchData calls that have not finished

statsVars == <<records, students, groups, loading, period, statsMode,
               selectedGroupId, selectedStudentId, selectedDate, expectedSessionsMemo>>

dashVars == <<dashRecords, dashStudents, absences, dashLoading, error,
              dashSelectedDate, storeRecords, storeStudents, storeAbsences,
              writesAwaited, inFlight>>

vars == <<now, statsVars, dashVars>>

view == <<period, statsMode, selectedGroupId, selectedStudentId, selectedDate>>

(***************************************************************************)
(* Bounds of the model.                                                    *)
(***************************************************************************)
\* the largest number of rows the records query returns
MaxRecords == 2
\* how many periods previous/next may move the reference date away from now
MaxNav == 1
\* the number of consecutive days a streak history is drawn from
StreakDays == 6
\* the largest number of rows of the table student_absences
MaxAbsences == 2
\* the largest number of dashboard writes and fetches under way at once
MaxInFlight == 2
\* how many days the dashboard's date may be moved away from the current day
DashNavDays == 7
\* the largest number of morning rows, and of night rows, of a badge history
\* that is not all morning or all night
MaxTimed == 3

(***************************************************************************)
(* Small helpers.                                                          *)
(***************************************************************************)
Max(a, b) == IF a >= b THEN a ELSE b

Min(a, b) == IF a <= b THEN a ELSE b

\* Math.round(n / d) for d > 0: the nearest integer, halves towards +infinity.
\* The quotients taken here are exact in binary floating point whenever
\* they end in .5 (d is 1, 4, 16, 208 or a small count), so this is what
\* Math.round returns.
MathRound(n, d) == (2 * n + d) \div (2 * d)

RECURSIVE SumSeq(_)
SumSeq(s) == IF s = <<>> THEN 0 ELSE Head(s) + SumSeq(Tail(s))

\* Array.prototype.sort() on distinct keys: ascending.
RECURSIVE SortedSeq(_)
SortedSeq(S) ==
    IF S = {} THEN <<>>
    ELSE LET m == CHOOSE x \in S : \A y \in S : x <= y
         IN <<m>> \o SortedSeq(S \ {m})

(***************************************************************************)
(* The calendar (date-fns on local dates).                                 *)
(***************************************************************************)
EpochYear == 2024

IsLeap(y) == (y % 4 = 0 /\ y % 100 # 0) \/ y % 400 = 0

DaysInYear(y) == IF IsLeap(y) THEN 366 ELSE 365

DaysInMonth(y, m) ==
    IF m = 2 THEN (IF IsLeap(y) THEN 29 ELSE 28)
    ELSE IF m \in {4, 6, 9, 11} THEN 30 ELSE 31

\* day number of January 1st of year y
RECURSIVE YearStart(_)
YearStart(y) ==
    IF y = EpochYear THEN 0
    ELSE IF y > EpochYear THEN YearStart(y - 1) + DaysInYear(y - 1)
    ELSE YearStart(y + 1) - DaysInYear(y)

RECURSIVE YearFrom(_, _)
YearFrom(y, d) ==
    IF d < YearStart(y) THEN YearFrom(y - 1, d)
    ELSE IF d >= YearStart(y + 1) THEN YearFrom(y + 1, d)
    ELSE y

\* day number of the first day of month m of year y
RECURSIVE MonthStart(_, _)
MonthStart(y, m) ==
    IF m = 1 THEN YearStart(y) ELSE MonthStart(y, m - 1) + DaysInMonth(y, m - 1)

MonthFrom(y, d) ==
    CHOOSE m \in 1..12 : MonthStart(y, m) <= d /\ d < MonthStart(y, m) + DaysInMonth(y, m)

\* the years the model's dates fall in, and the calendar over them, laid out once
CalendarYears == (EpochYear - 3)..(EpochYear + 3)

CalendarDays ==
    YearStart(EpochYear - 3)..(YearStart(EpochYear + 4) - 1)

Calendar ==
    [d \in CalendarDays |->
        LET y == YearFrom(EpochYear, d)
            m == MonthFrom(y, d)
        IN [year |-> y, month |-> m, date |-> d - MonthStart(y, m) + 1]]

FirstOfMonth ==
    [y \in CalendarYears |-> [m \in 1..12 |-> MonthStart(y, m)]]

getYear(d) == Calendar[d].year

\* 1 is January (date-fns counts from 0)
getMonth(d) == Calendar[d].month

getDate(d) == Calendar[d].date

DayNumber(y, m, dd) == FirstOfMonth[y][m] + dd - 1

\* getDay: 0 is Sunday; day 0 is a Monday
getDay(d) == (d + 1) % 7

startOfDay(d) == d

endOfDay(d) == d

\* (a variant: the week starts on Sunday)
startOfWeek_sunday(d) == d - getDay(d)

\* startOfWeek(d, { weekStartsOn: 1 })
startOfWeek(d) == d - ((getDay(d) + 6) % 7)

endOfWeek(d) == startOfWeek(d) + 6

startOfMonth(d) == FirstOfMonth[getYear(d)][getMonth(d)]

endOfMonth(d) == startOfMonth(d) + DaysInMonth(getYear(d), getMonth(d)) - 1

startOfYear(d) == FirstOfMonth[getYear(d)][1]

endOfYear(d) == FirstOfMonth[getYear(d)][12] + 30

addDays(d, n) == d + n

subDays(d, n) == d - n

addWeeks(d, n) == d + 7 * n

subWeeks(d, n) == d - 7 * n

\* (a variant: the day of the month is kept and runs over into the next month)
addMonths_overflowing(d, n) ==
    LET idx == getYear(d) * 12 + (getMonth(d) - 1) + n
        y == idx \div 12
        m == (idx % 12) + 1
    IN DayNumber(y, m, getDate(d))

\* addMonths keeps the day of the month, cut to the target month's last day
addMonths(d, n) ==
    LET idx == getYear(d) * 12 + (getMonth(d) - 1) + n
        y == idx \div 12
        m == (idx % 12) + 1
    IN DayNumber(y, m, Min(getDate(d), DaysInMonth(y, m)))

subMonths(d, n) == addMonths(d, -n)

addYears(d, n) == addMonths(d, 12 * n)

subYears(d, n) == addMonths(d, -12 * n)

\* differenceInDays of two local midnights
differenceInDays(later, earlier) == later - earlier

(***************************************************************************)
(* The data the three queries of fetchData can return.                     *)
(***************************************************************************)
\* Rows of myrecords, listed as the query orders them: created_at descending.
\* No row is written after the day the page is opened; a session_date may
\* have been set to a later day.
RecordPool == <<
    [id |-> 6, whatsapp_id_student |-> "s1", session_date |-> <<130>>,
     created_at |-> 129, duration_minutes |-> <<-15>>],
    [id |-> 5, whatsapp_id_student |-> "x9", session_date |-> <<130>>,
     created_at |-> 129, duration_minutes |-> <<15>>],
    [id |-> 4, whatsapp_id_student |-> "s1", session_date |-> <<129>>,
     created_at |-> 129, duration_minutes |-> <<60>>],
    [id |-> 3, whatsapp_id_student |-> "s1", session_date |-> <<>>,
     created_at |-> 129, duration_minutes |-> <<>>],
    [id |-> 2, whatsapp_id_student |-> "s2", session_date |-> <<125>>,
     created_at |-> 126, duration_minutes |-> <<90>>],
    [id |-> 1, whatsapp_id_student |-> "s2", session_date |-> <<>>,
     created_at |-> 0, duration_minutes |-> <<20>>] >>

\* the rows of pool at the indices I, in the pool's order
PoolRows(pool, I) ==
    LET idx == SortedSeq(I)
    IN [k \in 1..Len(idx) |-> pool[idx[k]]]

RecordSnapshots ==
    {PoolRows(RecordPool, I) :
        I \in {J \in SUBSET (1..Len(RecordPool)) : Cardinality(J) <= MaxRecords}}

\* Histories of one student over StreakDays consecutive days from Monday
\* 2024-05-06 on.  Each day has two rows to take: one with that session_date,
\* written the day after or, for a day still to come, today; and one without
\* session_date, written that day.
StreakFirstDay == DayNumber(EpochYear, 5, 6)

StreakPool ==
    LET rows == [i \in 1..(2 * StreakDays) |->
                    LET d == StreakFirstDay + StreakDays - 1 - ((i - 1) \div 2)
                    IN IF i % 2 = 1
                       THEN [id |-> 2 * StreakDays + 1 - i, whatsapp_id_student |-> "s1",
                             session_date |-> <<d>>, created_at |-> Min(d + 1, now),
                             duration_minutes |-> <<30>>]
                       ELSE [id |-> 2 * StreakDays + 1 - i, whatsapp_id_student |-> "s1",
                             session_date |-> <<>>, created_at |-> d,
                             duration_minutes |-> <<>>]]
    IN SelectSeq(rows, LAMBDA r : r.created_at <= now)

StreakHistories ==
    {PoolRows(StreakPool, I) : I \in SUBSET (1..Len(StreakPool))}

StudentTable1 ==
    << [id |-> 1, whatsapp_id_student |-> "s1", group_id |-> "g1"],
       [id |-> 2, whatsapp_id_student |-> "s2", group_id |-> "g1"] >>

StudentTable2 ==
    << [id |-> 1, whatsapp_id_student |-> "s1", group_id |-> "g1"],
       [id |-> 2, whatsapp_id_student |-> "s2", group_id |-> "g2"] >>

StudentTable3 ==
    << [id |-> 1, whatsapp_id_student |-> "s1", group_id |-> "g1"],
       [id |-> 2, whatsapp_id_student |-> "s1", group_id |-> "g2"],
       [id |-> 3, whatsapp_id_student |-> "s2", group_id |-> "null"] >>

StudentTables == {StudentTable1, StudentTable2, StudentTable3}

\* Rows for the group rollup: 60 and 90 minutes in May 2024 for two students
\* of g1, a row of April, a row without duration, a row of a student of g2.
RollupPool == <<
    [id |-> 5, whatsapp_id_student |-> "s1", session_date |-> <<129>>,
     created_at |-> 129, duration_minutes |-> <<60>>],
    [id |-> 4, whatsapp_id_student |-> "s4", session_date |-> <<>>,
     created_at |-> 128, duration_minutes |-> <<25>>],
    [id |-> 3, whatsapp_id_student |-> "s2", session_date |-> <<126>>,
     created_at |-> 127, duration_minutes |-> <<90>>],
    [id |-> 2, whatsapp_id_student |-> "s2", session_date |-> <<>>,
     created_at |-> 126, duration_minutes |-> <<>>],
    [id |-> 1, whatsapp_id_student |-> "s1", session_date |-> <<100>>,
     created_at |-> 100, duration_minutes |-> <<40>>] >>

RollupSnapshots ==
    {PoolRows(RollupPool, I) : I \in SUBSET (1..Len(RollupPool))}

\* three members of g1 and one of g2
StudentTable4 ==
    << [id |-> 1, whatsapp_id_student |-> "s1", group_id |-> "g1"],
       [id |-> 2, whatsapp_id_student |-> "s2", group_id |-> "g1"],
       [id |-> 3, whatsapp_id_student |-> "s3", group_id |-> "g1"],
       [id |-> 4, whatsapp_id_student |-> "s4", group_id |-> "g2"] >>

\* the same students after s2 was moved to g2
StudentTable5 ==
    << [id |-> 1, whatsapp_id_student |-> "s1", group_id |-> "g1"],
       [id |-> 2, whatsapp_id_student |-> "s2", group_id |-> "g2"],
       [id |-> 3, whatsapp_id_student |-> "s3", group_id |-> "g1"],
       [id |-> 4, whatsapp_id_student |-> "s4", group_id |-> "g2"] >>

GroupTable == << [id |-> "g1"], [id |-> "g2"] >>

\* the days on which the page is opened: Thursday 2024-05-09, a required day,
\* and Sunday 2024-05-12
NowDays == {DayNumber(EpochYear, 5, 9), DayNumber(EpochYear, 5, 12)}

TimePeriods == {"day", "week", "month", "year", "all"}

StatsModes == {"group", "student"}

(***************************************************************************)
(* Module-level constants and functions of Stats.tsx.                      *)
(***************************************************************************)
REQUIRED_DAYS == {"Monday", "Tuesday", "Thursday", "Friday"}

DAYS_OF_WEEK ==
    <<"Sunday", "Monday", "Tuesday", "Wednesday", "Thursday", "Friday", "Saturday">>

\* format(d, 'EEEE')
formatEEEE(d) == DAYS_OF_WEEK[getDay(d) + 1]

getDateRange(p, referenceDate) ==
    CASE p = "day"   -> [start |-> startOfDay(referenceDate), end |-> endOfDay(referenceDate)]
      [] p = "week"  -> [start |-> startOfWeek(referenceDate), end |-> endOfWeek(referenceDate)]
      [] p = "month" -> [start |-> startOfMonth(referenceDate), end |-> endOfMonth(referenceDate)]
      [] p = "year"  -> [start |-> startOfYear(referenceDate), end |-> endOfYear(referenceDate)]
      [] p = "all"   -> [start |-> DayNumber(EpochYear, 1, 1), end |-> endOfDay(now)]

\* (a variant: the weekday of the reference date instead of the current day's)
getExpectedSessions_ofReference(p) ==
    CASE p = "day"   -> IF formatEEEE(selectedDate) \in REQUIRED_DAYS THEN 1 ELSE 0
      [] p = "week"  -> Cardinality(REQUIRED_DAYS)
      [] p = "month" -> Cardinality(REQUIRED_DAYS) * 4
      [] p = "year"  -> Cardinality(REQUIRED_DAYS) * 52
      [] p = "all"   -> 0

getExpectedSessions(p) ==
    CASE p = "day"   -> IF formatEEEE(now) \in REQUIRED_DAYS THEN 1 ELSE 0
      [] p = "week"  -> Cardinality(REQUIRED_DAYS)
      [] p = "month" -> Cardinality(REQUIRED_DAYS) * 4
      [] p = "year"  -> Cardinality(REQUIRED_DAYS) * 52
      [] p = "all"   -> 0

(***************************************************************************)
(* The memoized derivations of the component.                              *)
(***************************************************************************)
filteredStudents ==
    IF selectedGroupId = "all" THEN students
    ELSE SelectSeq(students, LAMBDA s : s.group_id = selectedGroupId)

dateRange == getDateRange(period, selectedDate)

\* useMemo(() => getExpectedSessions(period), [period]): the value computed
\* when period last changed
expectedSessions == expectedSessionsMemo

\* r.session_date ? parseISO(r.session_date) : parseISO(r.created_at)
dateToUse(r) == IF r.session_date # <<>> THEN r.session_date[1] ELSE r.created_at

\* (a variant: the first day of the period is left out)
isInPeriod_afterStart(d, start, end) == d > start /\ d <= end

isInPeriod(d, start, end) == d >= start /\ d <= end

\* students.find(s => s.whatsapp_id_student === key)?.group_id
findGroupId(key) ==
    LET hits == SelectSeq(students, LAMBDA s : s.whatsapp_id_student = key)
    IN IF hits = <<>> THEN "undefined" ELSE hits[1].group_id

keepRecord(r) ==
    LET inPeriod == isInPeriod(dateToUse(r), dateRange.start, dateRange.end)
    IN IF statsMode = "student" /\ selectedStudentId # "all"
       THEN inPeriod /\ r.whatsapp_id_student = selectedStudentId
       ELSE inPeriod /\ (selectedGroupId = "all"
                          \/ findGroupId(r.whatsapp_id_student) = selectedGroupId)

periodRecords == SelectSeq(records, keepRecord)

\* curr.duration_minutes || 0
durationOrZero(r) == IF r.duration_minutes = <<>> THEN 0 ELSE r.duration_minutes[1]

totalDurationOf(recs) == SumSeq([i \in 1..Len(recs) |-> durationOrZero(recs[i])])

\* (a variant: the difference is not cut at 0)
missedSessionsOf_unclamped(p, expected, sessionsCount) ==
    IF p # "all" THEN expected - sessionsCount ELSE 0

missedSessionsOf(p, expected, sessionsCount) ==
    IF p # "all" THEN Max(0, expected - sessionsCount) ELSE 0

\* (a variant: the rate is cut at 100)
completionRateOf_capped(expected, sessionsCount) ==
    IF expected > 0 THEN Min(100, MathRound(sessionsCount * 100, expected)) ELSE 100

completionRateOf(expected, sessionsCount) ==
    IF expected > 0 THEN MathRound(sessionsCount * 100, expected) ELSE 100

avgDurationOf(totalDuration, sessionsCount) ==
    IF sessionsCount > 0 THEN MathRound(totalDuration, sessionsCount) ELSE 0

\* (a variant: the student's rows of the period instead of all of them)
allStudentRecords_fromPeriod(recs, student) ==
    SelectSeq(periodRecords, LAMBDA r : r.whatsapp_id_student = student.whatsapp_id_student)

\* records.filter(r => r.whatsapp_id_student === student.whatsapp_id_student);
\* the sort by created_at that follows keeps the set of rows
allStudentRecords(recs, student) ==
    SelectSeq(recs, LAMBDA r : r.whatsapp_id_student = student.whatsapp_id_student)

\* (a variant: the date a row was written on, whatever its session_date)
streakDateKey_createdOnly(r) == r.created_at

\* r.session_date || r.created_at.split('T')[0]
streakDateKey(r) == IF r.session_date # <<>> THEN r.session_date[1] ELSE r.created_at

\* Array.from(new Set(allStudentRecords.map(...))).sort()
uniqueDates(studentRecords) ==
    SortedSeq({streakDateKey(studentRecords[i]) : i \in 1..Len(studentRecords)})

\* (a variant: a gap closes a run without starting the count again)
RECURSIVE streakLoop_noReset(_, _, _, _)
streakLoop_noReset(dates, i, tempStreak, maxStreak) ==
    IF i > Len(dates) THEN <<tempStreak, maxStreak>>
    ELSE LET diff == differenceInDays(dates[i], dates[i - 1])
         IN IF diff = 1 THEN streakLoop_noReset(dates, i + 1, tempStreak + 1, maxStreak)
            ELSE streakLoop_noReset(dates, i + 1, tempStreak, Max(maxStreak, tempStreak))

\* the for loop of the streak walk from index i on (1-based), as
\* <<tempStreak, maxStreak>> when it ends
RECURSIVE streakLoop(_, _, _, _)
streakLoop(dates, i, tempStreak, maxStreak) ==
    IF i > Len(dates) THEN <<tempStreak, maxStreak>>
    ELSE LET diff == differenceInDays(dates[i], dates[i - 1])
         IN IF diff = 1 THEN streakLoop(dates, i + 1, tempStreak + 1, maxStreak)
            ELSE IF diff > 1
                 THEN streakLoop(dates, i + 1, 1, Max(maxStreak, tempStreak))
                 ELSE streakLoop(dates, i + 1, tempStreak, maxStreak)

\* (a variant: the run still open when the loop ends is never counted)
closeFinalRun_dropped(maxStreak, tempStreak) == maxStreak

\* maxStreak = Math.max(maxStreak, tempStreak) after the loop
closeFinalRun(maxStreak, tempStreak) == Max(maxStreak, tempStreak)

\* differenceInDays(today, lastDate) <= 1
streakIsCurrent(today, lastDate) == differenceInDays(today, lastDate) <= 1

streaksOf(studentRecords) ==
    LET dates == uniqueDates(studentRecords)
    IN IF Len(dates) > 0
       THEN LET walk == streakLoop(dates, 2, 1, 0)
                today == startOfDay(now)
            IN [maxStreak |-> closeFinalRun(walk[2], walk[1]),
                currentStreak |-> IF streakIsCurrent(today, dates[Len(dates)])
                                  THEN walk[1] ELSE 0]
       ELSE [maxStreak |-> 0, currentStreak |-> 0]

\* maxStreak and currentStreak of a student, from all the rows of recs
streaksOfStudent(student, recs) == streaksOf(allStudentRecords(recs, student))

\* (a variant: a student is given the rows of every student of the group)
studentPeriodRecordsOf_ofGroup(student) ==
    SelectSeq(periodRecords,
              LAMBDA r : findGroupId(r.whatsapp_id_student) = student.group_id)

\* periodRecords.filter(r => r.whatsapp_id_student === student.whatsapp_id_student)
studentPeriodRecordsOf(student) ==
    SelectSeq(periodRecords,
              LAMBDA r : r.whatsapp_id_student = student.whatsapp_id_student)

\* (a variant: the days with a record are counted, not the records)
sessionsCountOf_distinctDates(studentPeriodRecords) ==
    Cardinality({dateToUse(studentPeriodRecords[j]) : j \in 1..Len(studentPeriodRecords)})

\* studentPeriodRecords.length
sessionsCountOf(studentPeriodRecords) == Len(studentPeriodRecords)

\* one element of studentStats
statsOfStudent(student, recs) ==
    LET studentPeriodRecords == studentPeriodRecordsOf(student)
        totalDuration == totalDurationOf(studentPeriodRecords)
        sessionsCount == sessionsCountOf(studentPeriodRecords)
        streaks == streaksOfStudent(student, recs)
    IN [id |-> student.id,
        whatsapp_id_student |-> student.whatsapp_id_student,
        group_id |-> student.group_id,
        totalDuration |-> totalDuration,
        sessionsCount |-> sessionsCount,
        missedSessions |-> missedSessionsOf(period, expectedSessions, sessionsCount),
        completionRate |-> completionRateOf(expectedSessions, sessionsCount),
        avgDuration |-> avgDurationOf(totalDuration, sessionsCount),
        maxStreak |-> streaks.maxStreak,
        currentStreak |-> streaks.currentStreak]

\* (a variant: students without a row in the period are left out)
studentStats_withRecords ==
    LET withRows == SelectSeq(filteredStudents, LAMBDA s :
                        \E j \in 1..Len(periodRecords) :
                            periodRecords[j].whatsapp_id_student = s.whatsapp_id_student)
    IN [i \in 1..Len(withRows) |-> statsOfStudent(withRows[i], records)]

studentStats ==
    [i \in 1..Len(filteredStudents) |-> statsOfStudent(filteredStudents[i], records)]

\* (a variant: rows after the end of the period are taken too)
groupRecords_noEnd(group) ==
    LET groupStudents == SelectSeq(students, LAMBDA s : s.group_id = group.id)
    IN SelectSeq(records, LAMBDA r :
           /\ \E k \in 1..Len(groupStudents) :
                 groupStudents[k].whatsapp_id_student = r.whatsapp_id_student
           /\ dateToUse(r) >= dateRange.start)

\* (a variant: the rollup is taken from the rows the filters have kept)
groupRecords_fromPeriodRecords(group) ==
    LET groupStudents == SelectSeq(students, LAMBDA s : s.group_id = group.id)
    IN SelectSeq(periodRecords, LAMBDA r :
           \E k \in 1..Len(groupStudents) :
               groupStudents[k].whatsapp_id_student = r.whatsapp_id_student)

\* the rows of one group's rollup
groupRecords(group) ==
    LET groupStudents == SelectSeq(students, LAMBDA s : s.group_id = group.id)
    IN SelectSeq(records, LAMBDA r :
           /\ \E k \in 1..Len(groupStudents) :
                 groupStudents[k].whatsapp_id_student = r.whatsapp_id_student
           /\ dateToUse(r) >= dateRange.start
           /\ dateToUse(r) <= dateRange.end)

\* (a variant: the average is taken over the members of the group)
groupStatsOf_perMember(group) ==
    LET groupStudents == SelectSeq(students, LAMBDA s : s.group_id = group.id)
        totalDuration == totalDurationOf(groupRecords(group))
        sessionsCount == Len(groupRecords(group))
    IN [id |-> group.id,
        totalDuration |-> totalDuration,
        sessionsCount |-> sessionsCount,
        avgDuration |-> avgDurationOf(totalDuration, Len(groupStudents)),
        studentCount |-> Len(groupStudents)]

groupStatsOf(group) ==
    LET groupStudents == SelectSeq(students, LAMBDA s : s.group_id = group.id)
        totalDuration == totalDurationOf(groupRecords(group))
        sessionsCount == Len(groupRecords(group))
    IN [id |-> group.id,
        totalDuration |-> totalDuration,
        sessionsCount |-> sessionsCount,
        avgDuration |-> avgDurationOf(totalDuration, sessionsCount),
        studentCount |-> Len(groupStudents)]

groupStats == [i \in 1..Len(groups) |-> groupStatsOf(groups[i])]

\* null (no student selected) and undefined (find misses) are both <<>>:
\* the page renders the student's cards only for a value that is neither
currentStudentData ==
    IF statsMode # "student" \/ selectedStudentId = "all" THEN <<>>
    ELSE LET hits == SelectSeq(studentStats,
                               LAMBDA s : s.whatsapp_id_student = selectedStudentId)
         IN IF hits = <<>> THEN <<>> ELSE <<hits[1]>>

(***************************************************************************)
(* Badges (assignBadges), as the set of the ids of the badges pushed.       *)
(***************************************************************************)
\* (a variant: every tier the streak reaches is pushed)
streakTierBadges_everyTier(maxStreak) ==
    (IF maxStreak >= 30 THEN {"legend"} ELSE {})
    \cup (IF maxStreak >= 10 THEN {"fire"} ELSE {})
    \cup (IF maxStreak >= 3 THEN {"warming-up"} ELSE {})

\* if (maxStreak >= 30) ... else if (maxStreak >= 10) ... else if (maxStreak >= 3) ...
streakTierBadges(maxStreak) ==
    IF maxStreak >= 30 THEN {"legend"}
    ELSE IF maxStreak >= 10 THEN {"fire"}
    ELSE IF maxStreak >= 3 THEN {"warming-up"}
    ELSE {}

\* r.time_sent?.split(':') || [] has an hour: parseInt(time[0])
morningCount(studentRecords) ==
    Len(SelectSeq(studentRecords, LAMBDA r : r.time_sent # <<>> /\ r.time_sent[1] < 9))

nightCount(studentRecords) ==
    Len(SelectSeq(studentRecords, LAMBDA r : r.time_sent # <<>> /\ r.time_sent[1] >= 20))

\* (a variant: a share of exactly 30% is enough)
timingBadges_fromThirty(studentRecords) ==
    IF Len(studentRecords) > 5
    THEN (IF 10 * morningCount(studentRecords) >= 3 * Len(studentRecords)
          THEN {"early-bird"} ELSE {})
         \cup (IF 10 * nightCount(studentRecords) >= 3 * Len(studentRecords)
               THEN {"night-owl"} ELSE {})
    ELSE {}

\* count / length > 0.3, as 10 * count > 3 * length
timingBadges(studentRecords) ==
    IF Len(studentRecords) > 5
    THEN (IF 10 * morningCount(studentRecords) > 3 * Len(studentRecords)
          THEN {"early-bird"} ELSE {})
         \cup (IF 10 * nightCount(studentRecords) > 3 * Len(studentRecords)
               THEN {"night-owl"} ELSE {})
    ELSE {}

\* (a variant: the number of records is not looked at)
performanceBadges_anyCount(completionRate, studentRecords) ==
    IF completionRate = 100 THEN {"perfectionist"} ELSE {}

\* if (completionRate === 100 && studentRecords.length > 5)
performanceBadges(completionRate, studentRecords) ==
    IF completionRate = 100 /\ Len(studentRecords) > 5 THEN {"perfectionist"} ELSE {}

assignBadges(studentRecords, totalDuration, completionRate, maxStreak) ==
    streakTierBadges(maxStreak)
    \cup timingBadges(studentRecords)
    \cup performanceBadges(completionRate, studentRecords)

\* the badges field of the elements of studentStats:
\* assignBadges(allStudentRecords, totalDuration, completionRate, maxStreak)
studentBadges ==
    [i \in 1..Len(filteredStudents) |->
        assignBadges(allStudentRecords(records, filteredStudents[i]),
                     studentStats[i].totalDuration,
                     studentStats[i].completionRate,
                     studentStats[i].maxStreak)]

\* the numbers of rows of the histories badges are computed on
BadgeRunLengths == {0, 2, 3, 5, 6, 7, 9, 10, 29, 30}

TimedCounts(n) == {k \in (0..MaxTimed) \cup {n} : k <= n}

\* a history of student s1: n rows on the n days up to the current day, the
\* most recent first; the first a of them sent at 8, the next b at 20, the
\* others at 12 or without a time
BadgeHistory(n, a, b) ==
    [i \in 1..n |->
        [id |-> n + 1 - i, whatsapp_id_student |-> "s1",
         session_date |-> <<now - (i - 1)>>, created_at |-> now - (i - 1),
         duration_minutes |-> <<30>>,
         time_sent |-> IF i <= a THEN <<8>>
                       ELSE IF i <= a + b THEN <<20>>
                       ELSE IF i % 2 = 0 THEN <<>> ELSE <<12>>]]

BadgeHistories ==
    UNION {{BadgeHistory(n, c[1], c[2]) :
               c \in {t \in TimedCounts(n) \X TimedCounts(n) : t[1] + t[2] <= n}} :
           n \in BadgeRunLengths}

(***************************************************************************)
(* The dashboard (Dashboard.tsx): its data and its derivations.            *)
(***************************************************************************)
\* rows of myrecords the dashboard's store is drawn from, created_at descending
\* (created_at is a timestamp: its day, and created_time within the day)
DashRecordPool ==
    << [id |-> 13, whatsapp_id_student |-> "s1", session_date |-> <<129>>,
        created_at |-> 129, created_time |-> 1, duration_minutes |-> <<45>>],
       [id |-> 12, whatsapp_id_student |-> "s1", session_date |-> <<129>>,
        created_at |-> 128, created_time |-> 1, duration_minutes |-> <<60>>],
       [id |-> 11, whatsapp_id_student |-> "s2", session_date |-> <<126>>,
        created_at |-> 126, created_time |-> 1, duration_minutes |-> <<90>>] >>

DashRecordTables ==
    {PoolRows(DashRecordPool, I) : I \in SUBSET (1..Len(DashRecordPool))}

\* new Date(a.created_at) > new Date(b.created_at)
createdAfter(a, b) ==
    \/ a.created_at > b.created_at
    \/ a.created_at = b.created_at /\ a.created_time > b.created_time

\* Rows for the daily view of Thursday 2024-05-09: four of student s1 with that
\* session_date, two of them written at the same instant, one of s2, and one
\* of s1 for the day after.
DailyPool ==
    { [id |-> 26, whatsapp_id_student |-> "s1", session_date |-> <<130>>,
       created_at |-> 129, created_time |-> 3, duration_minutes |-> <<5>>],
      [id |-> 25, whatsapp_id_student |-> "s2", session_date |-> <<129>>,
       created_at |-> 129, created_time |-> 1, duration_minutes |-> <<50>>],
      [id |-> 24, whatsapp_id_student |-> "s1", session_date |-> <<129>>,
       created_at |-> 128, created_time |-> 3, duration_minutes |-> <<40>>],
      [id |-> 23, whatsapp_id_student |-> "s1", session_date |-> <<129>>,
       created_at |-> 129, created_time |-> 1, duration_minutes |-> <<30>>],
      [id |-> 22, whatsapp_id_student |-> "s1", session_date |-> <<129>>,
       created_at |-> 129, created_time |-> 2, duration_minutes |-> <<20>>],
      [id |-> 21, whatsapp_id_student |-> "s1", session_date |-> <<129>>,
       created_at |-> 129, created_time |-> 2, duration_minutes |-> <<10>>] }

\* the sequences that list the rows of R once each
Listings(R) ==
    {q \in [1..Cardinality(R) -> R] : \A i, j \in 1..Cardinality(R) : q[i] = q[j] => i = j}

\* .order('created_at', { ascending: false }): rows of one instant come in
\* any order
orderedByCreatedAt(q) == \A i, j \in 1..Len(q) : i < j => ~createdAfter(q[j], q[i])

DailyRecordTables ==
    UNION {{q \in Listings(R) : orderedByCreatedAt(q)} : R \in SUBSET DailyPool}

\* the absences the table student_absences may hold when the page is opened
DashAbsenceTables ==
    { <<>>, <<[whatsapp_id_student |-> "s2", absence_date |-> 129]>> }

\* the error message of a failed fetch, null as the empty sequence
NoError == <<>>

\* the state of the dashboard's variables while the page is not open
DashboardUnmounted ==
    /\ dashRecords = <<>>
    /\ dashStudents = <<>>
    /\ absences = <<>>
    /\ dashLoading = TRUE
    /\ error = NoError
    /\ dashSelectedDate = now
    /\ storeRecords = <<>>
    /\ storeStudents = <<>>
    /\ storeAbsences = <<>>
    /\ writesAwaited = <<>>
    /\ inFlight = <<>>

\* const isAllowedDay = (dateStr) => ALLOWED_DAYS.includes(format(date, 'EEEE'))
ALLOWED_DAYS == {"Monday", "Tuesday", "Thursday", "Friday"}

\* (a variant: every day from Monday to Friday is allowed)
isAllowedDay_weekdays(d) == getDay(d) \in 1..5

isAllowedDay(d) == formatEEEE(d) \in ALLOWED_DAYS

weekStart == startOfWeek(dashSelectedDate)

weekEnd == endOfWeek(dashSelectedDate)

\* records.filter(r => dateToUse >= weekStart && dateToUse <= weekEnd)
currentWeekRecords ==
    SelectSeq(dashRecords, LAMBDA r : dateToUse(r) >= weekStart /\ dateToUse(r) <= weekEnd)

\* records.filter(r => r.session_date === selectedDate)
selectedDateRecordsAll ==
    SelectSeq(dashRecords, LAMBDA r : r.session_date = <<dashSelectedDate>>)

\* (a variant: the row of a student first met is never replaced)
keepMostRecent_firstListed(acc, record) ==
    IF \E i \in 1..Len(acc) : acc[i].whatsapp_id_student = record.whatsapp_id_student
    THEN acc
    ELSE Append(acc, record)

\* the callback of the reduce: the row joins acc, or takes the place of the
\* row of its student held there when it is more recent
keepMostRecent(acc, record) ==
    LET held == {i \in 1..Len(acc) :
                    acc[i].whatsapp_id_student = record.whatsapp_id_student}
    IN IF held = {} THEN Append(acc, record)
       ELSE LET index == CHOOSE i \in held : \A j \in held : i <= j
            IN IF createdAfter(record, acc[index])
               THEN [acc EXCEPT ![index] = record]
               ELSE acc

RECURSIVE reduceRecords(_, _, _)
reduceRecords(rows, i, acc) ==
    IF i > Len(rows) THEN acc
    ELSE reduceRecords(rows, i + 1, keepMostRecent(acc, rows[i]))

selectedDateRecords == reduceRecords(selectedDateRecordsAll, 1, <<>>)

\* isAbsent(whatsappId, date)
isAbsent(whatsappId, date) ==
    IF whatsappId = "null" THEN FALSE
    ELSE \E i \in 1..Len(absences) :
            /\ absences[i].whatsapp_id_student = whatsappId
            /\ absences[i].absence_date = date

\* one element of dailyStudentActivity
activityOf(student) ==
    LET found == SelectSeq(selectedDateRecords, LAMBDA r :
                     r.whatsapp_id_student = student.whatsapp_id_student)
    IN [id |-> student.id,
        whatsapp_id_student |-> student.whatsapp_id_student,
        hasRecord |-> found # <<>>,
        durationMinutes |-> IF found = <<>> THEN 0 ELSE durationOrZero(found[1]),
        isAbsent |-> isAbsent(student.whatsapp_id_student, dashSelectedDate)]

dailyStudentActivity == [i \in 1..Len(dashStudents) |-> activityOf(dashStudents[i])]

totalSent == Len(SelectSeq(dailyStudentActivity, LAMBDA s : s.hasRecord))

totalMissing == Len(SelectSeq(dailyStudentActivity, LAMBDA s : ~s.hasRecord))

totalAbsentToday == Len(SelectSeq(dailyStudentActivity, LAMBDA s : s.isAbsent))

totalPresent == Len(SelectSeq(dailyStudentActivity, LAMBDA s : ~s.isAbsent))

\* one element of the dashboard's studentStats: the week of a student
weekOfStudent(student) ==
    LET studentRecords == SelectSeq(currentWeekRecords, LAMBDA r :
                              r.whatsapp_id_student = student.whatsapp_id_student)
        submittedDays == {formatEEEE(studentRecords[i].session_date[1]) :
                             i \in {j \in 1..Len(studentRecords) :
                                       studentRecords[j].session_date # <<>>}}
        weekAbsences == SelectSeq(absences, LAMBDA a :
                            /\ a.whatsapp_id_student = student.whatsapp_id_student
                            /\ a.absence_date >= weekStart
                            /\ a.absence_date <= weekEnd)
    IN [id |-> student.id,
        whatsapp_id_student |-> student.whatsapp_id_student,
        weekDuration |-> totalDurationOf(studentRecords),
        submittedDays |-> submittedDays,
        missingDays |-> REQUIRED_DAYS \ submittedDays,
        completedCount |-> Cardinality(submittedDays),
        absenceCount |-> Len(weekAbsences)]

dashboardStudentStats == [i \in 1..Len(dashStudents) |-> weekOfStudent(dashStudents[i])]

\* const problematicStudents = studentStats.filter(s => s.missingDays.length > 0)
problematicStudents == SelectSeq(dashboardStudentStats, LAMBDA s : s.missingDays # {})

\* the page below the guards `if (loading) return ...; if (error) return ...`
dashboardShown == ~dashLoading /\ error = NoError

(***************************************************************************)
(* The state machine: mount, the fetch, and the controls of the page.      *)
(***************************************************************************)
Init ==
    /\ now \in NowDays
    /\ records = <<>>
    /\ students = <<>>
    /\ groups = <<>>
    /\ loading = TRUE
    /\ period = "month"
    /\ statsMode = "group"
    /\ selectedGroupId = "all"
    /\ selectedStudentId = "all"
    /\ selectedDate = now
    /\ expectedSessionsMemo = getExpectedSessions("month")
    /\ DashboardUnmounted

\* fetchData, the three queries answered with rows out of the given sets
FetchData(recordSets, studentSets) ==
    /\ loading
    /\ \E recs \in recordSets, studs \in studentSets :
          /\ students' = studs
          /\ records' = recs
          /\ groups' = GroupTable
    /\ loading' = FALSE
    /\ UNCHANGED <<now, view>>
    /\ UNCHANGED <<expectedSessionsMemo, dashVars>>

FetchDataOk == FetchData(RecordSnapshots, StudentTables)

\* the same fetch, answered with one student's history
FetchStreakHistory == FetchData(StreakHistories, {StudentTable1})

\* fetchData, the three queries answered without an error and without rows
FetchDataEmpty ==
    /\ loading
    /\ students' = <<>>
    /\ records' = <<>>
    /\ groups' = <<>>
    /\ loading' = FALSE
    /\ UNCHANGED <<now, view>>
    /\ UNCHANGED <<expectedSessionsMemo, dashVars>>

\* fetchData, a query answered with an error: the catch logs it
FetchDataError ==
    /\ loading
    /\ loading' = FALSE
    /\ UNCHANGED <<now, records, students, groups, view>>
    /\ UNCHANGED <<expectedSessionsMemo, dashVars>>

SetStatsMode(m) ==
    /\ ~loading
    /\ statsMode' = m
    /\ UNCHANGED <<now, records, students, groups, loading, period,
                   selectedGroupId, selectedStudentId, selectedDate>>
    /\ UNCHANGED <<expectedSessionsMemo, dashVars>>

\* the group <select>, rendered in group mode
SetSelectedGroupId(g) ==
    /\ ~loading
    /\ statsMode = "group"
    /\ g \in {"all"} \cup {groups[i].id : i \in 1..Len(groups)}
    /\ selectedGroupId' = g
    /\ UNCHANGED <<now, records, students, groups, loading, period,
                   statsMode, selectedStudentId, selectedDate>>
    /\ UNCHANGED <<expectedSessionsMemo, dashVars>>

\* the student <select>, rendered in student mode
SetSelectedStudentId(k) ==
    /\ ~loading
    /\ statsMode = "student"
    /\ k \in {"all"} \cup {students[i].whatsapp_id_student : i \in 1..Len(students)}
    /\ selectedStudentId' = k
    /\ UNCHANGED <<now, records, students, groups, loading, period,
                   statsMode, selectedGroupId, selectedDate>>
    /\ UNCHANGED <<expectedSessionsMemo, dashVars>>

\* the number of periods of type p from the current day to day d
periodsFromNow(p, d) ==
    CASE p = "day"   -> d - now
      [] p = "week"  -> (startOfWeek(d) - startOfWeek(now)) \div 7
      [] p = "month" -> (getYear(d) * 12 + getMonth(d)) - (getYear(now) * 12 + getMonth(now))
      [] p = "year"  -> getYear(d) - getYear(now)
      [] p = "all"   -> 0

previousDate ==
    IF period = "day" THEN subDays(selectedDate, 1)
    ELSE IF period = "week" THEN subWeeks(selectedDate, 1)
    ELSE IF period = "month" THEN subMonths(selectedDate, 1)
    ELSE IF period = "year" THEN subYears(selectedDate, 1)
    ELSE selectedDate

nextDate ==
    IF period = "day" THEN addDays(selectedDate, 1)
    ELSE IF period = "week" THEN addWeeks(selectedDate, 1)
    ELSE IF period = "month" THEN addMonths(selectedDate, 1)
    ELSE IF period = "year" THEN addYears(selectedDate, 1)
    ELSE selectedDate

\* the ChevronLeft button, rendered when period is not 'all'
Previous ==
    /\ ~loading
    /\ period # "all"
    /\ periodsFromNow(period, previousDate) >= -MaxNav
    /\ selectedDate' = previousDate
    /\ UNCHANGED <<now, records, students, groups, loading, period,
                   statsMode, selectedGroupId, selectedStudentId>>
    /\ UNCHANGED <<expectedSessionsMemo, dashVars>>

\* the ChevronRight button
NextPeriod ==
    /\ ~loading
    /\ period # "all"
    /\ periodsFromNow(period, nextDate) <= MaxNav
    /\ selectedDate' = nextDate
    /\ UNCHANGED <<now, records, students, groups, loading, period,
                   statsMode, selectedGroupId, selectedStudentId>>
    /\ UNCHANGED <<expectedSessionsMemo, dashVars>>

\* the Current button
Current ==
    /\ ~loading
    /\ period # "all"
    /\ selectedDate' = now
    /\ UNCHANGED <<now, records, students, groups, loading, period,
                   statsMode, selectedGroupId, selectedStudentId>>
    /\ UNCHANGED <<expectedSessionsMemo, dashVars>>

\* (a variant: the reference date is reset by every period type button)
SetPeriod_alwaysReset(p) ==
    /\ ~loading
    /\ period' = p
    /\ selectedDate' = now
    /\ UNCHANGED <<now, records, students, groups, loading,
                   statsMode, selectedGroupId, selectedStudentId>>
    /\ expectedSessionsMemo' = IF p # period THEN getExpectedSessions(p)
                                             ELSE expectedSessionsMemo
    /\ UNCHANGED dashVars

\* a period type button
SetPeriod(p) ==
    /\ ~loading
    /\ period' = p
    /\ selectedDate' = IF p # period THEN now ELSE selectedDate
    /\ UNCHANGED <<now, records, students, groups, loading,
                   statsMode, selectedGroupId, selectedStudentId>>
    /\ expectedSessionsMemo' = IF p # period THEN getExpectedSessions(p)
                                             ELSE expectedSessionsMemo
    /\ UNCHANGED dashVars

Next ==
    \/ FetchDataOk
    \/ FetchDataEmpty
    \/ FetchDataError
    \/ \E m \in StatsModes : SetStatsMode(m)
    \/ \E g \in {"all", "g1", "g2"} : SetSelectedGroupId(g)
    \/ \E k \in {"all", "s1", "s2"} : SetSelectedStudentId(k)
    \/ Previous
    \/ NextPeriod
    \/ Current
    \/ \E p \in TimePeriods : SetPeriod(p)

Spec == Init /\ [][Next]_vars

\* The page opened on one student's history: the streak walk on every set of
\* dates of StreakDays days.
NextStreak == FetchStreakHistory \/ FetchDataError

SpecStreak == Init /\ [][NextStreak]_vars

\* the same fetch, answered with one student's history with sending times
FetchBadgeHistory == FetchData(BadgeHistories, {StudentTable1})

NextBadges ==
    \/ FetchBadgeHistory
    \/ FetchDataError
    \/ \E p \in TimePeriods : SetPeriod(p)
    \/ Previous
    \/ NextPeriod
    \/ Current

SpecBadges == Init /\ [][NextBadges]_vars

\* The page opened on one student's history, with several rows a day, under
\* every period type.
NextSessions ==
    \/ FetchStreakHistory
    \/ FetchDataError
    \/ \E p \in TimePeriods : SetPeriod(p)

SpecSessions == Init /\ [][NextSessions]_vars

\* fetchData with the answer of each of its three queries: { data, error }
QueryError == [error |-> TRUE, data |-> <<>>]

QueryData(rows) == [error |-> FALSE, data |-> rows]

StudentsAnswers == {QueryError} \cup {QueryData(t) : t \in StudentTables}

RecordsAnswers ==
    {QueryError} \cup {QueryData(rs) : rs \in RecordSnapshots \ {<<>>}}

GroupsAnswers == {QueryError, QueryData(GroupTable)}

\* (a variant: each collection is set as soon as its own query has answered)
fetchOutcome_perQuery(studentsRes, recordsRes, groupsRes) ==
    [students |-> IF studentsRes.error THEN students ELSE studentsRes.data,
     records  |-> IF recordsRes.error THEN records ELSE recordsRes.data,
     groups   |-> IF groupsRes.error THEN groups ELSE groupsRes.data]

\* the three collections when fetchData returns: the throws come before the
\* first setter
fetchOutcome(studentsRes, recordsRes, groupsRes) ==
    IF studentsRes.error \/ recordsRes.error \/ groupsRes.error
    THEN [students |-> students, records |-> records, groups |-> groups]
    ELSE [students |-> studentsRes.data,
          records  |-> recordsRes.data,
          groups   |-> groupsRes.data]

FetchDataAnswered ==
    /\ loading
    /\ \E studentsRes \in StudentsAnswers, recordsRes \in RecordsAnswers,
          groupsRes \in GroupsAnswers :
          LET outcome == fetchOutcome(studentsRes, recordsRes, groupsRes)
          IN  /\ students' = outcome.students
              /\ records' = outcome.records
              /\ groups' = outcome.groups
    /\ loading' = FALSE
    /\ UNCHANGED <<now, view>>
    /\ UNCHANGED <<expectedSessionsMemo, dashVars>>

NextFetch == FetchDataAnswered

SpecFetch == Init /\ [][NextFetch]_vars

\* The page opened on the groups' data: every view of the group rollup.
FetchRollupData == FetchData(RollupSnapshots, {StudentTable4, StudentTable5})

NextRollup ==
    \/ FetchRollupData
    \/ FetchDataError
    \/ \E m \in StatsModes : SetStatsMode(m)
    \/ \E g \in {"all", "g1", "g2"} : SetSelectedGroupId(g)
    \/ \E k \in {"all", "s1"} : SetSelectedStudentId(k)
    \/ Previous
    \/ NextPeriod
    \/ \E p \in TimePeriods : SetPeriod(p)

SpecRollup == Init /\ [][NextRollup]_vars

(***************************************************************************)
(* The page open across midnight: the calendar day advances.               *)
(***************************************************************************)
\* the last day the clock reaches
LastDay == DayNumber(EpochYear, 5, 13)

\* midnight passes; no hook of the page changes and nothing is recomputed
\* until a dependency of a memo changes
Tick ==
    /\ now < LastDay
    /\ now' = now + 1
    /\ UNCHANGED <<statsVars, dashVars>>

\* the fetch answered with rows of one of two students
FetchMemoData == FetchData({PoolRows(RecordPool, {3}), PoolRows(RecordPool, {3, 5})},
                           {StudentTable1})

NextMemo ==
    \/ FetchMemoData
    \/ FetchDataError
    \/ \E m \in StatsModes : SetStatsMode(m)
    \/ \E g \in {"all", "g1", "g2"} : SetSelectedGroupId(g)
    \/ \E k \in {"all", "s1", "s2"} : SetSelectedStudentId(k)
    \/ Previous
    \/ NextPeriod
    \/ Current
    \/ \E p \in TimePeriods : SetPeriod(p)
    \/ Tick

SpecMemo == Init /\ [][NextMemo]_vars

(***************************************************************************)
(* The page opened on days at the ends of months and years, and its date   *)
(* controls.                                                               *)
(***************************************************************************)
NavDays ==
    { DayNumber(EpochYear, 1, 1),  DayNumber(EpochYear, 1, 31),
      DayNumber(EpochYear, 2, 28), DayNumber(EpochYear, 2, 29),
      DayNumber(EpochYear, 3, 1),  DayNumber(EpochYear, 3, 31),
      DayNumber(EpochYear, 5, 9),  DayNumber(EpochYear, 5, 12),
      DayNumber(EpochYear, 8, 31), DayNumber(EpochYear, 12, 31),
      DayNumber(EpochYear + 1, 1, 31), DayNumber(EpochYear + 1, 3, 30) }

InitNav ==
    /\ now \in NavDays
    /\ records = <<>>
    /\ students = <<>>
    /\ groups = <<>>
    /\ loading = TRUE
    /\ period = "month"
    /\ statsMode = "group"
    /\ selectedGroupId = "all"
    /\ selectedStudentId = "all"
    /\ selectedDate = now
    /\ expectedSessionsMemo = getExpectedSessions("month")
    /\ DashboardUnmounted

NextNav ==
    \/ FetchDataEmpty
    \/ Previous
    \/ NextPeriod
    \/ Current
    \/ \E p \in TimePeriods : SetPeriod(p)

SpecNav == InitNav /\ [][NextNav]_vars

(***************************************************************************)
(* The dashboard's state machine: mount, fetchData, the absence buttons    *)
(* and the date buttons.                                                   *)
(***************************************************************************)
InitDashboard ==
    /\ now \in NowDays
    /\ records = <<>>
    /\ students = <<>>
    /\ groups = <<>>
    /\ loading = TRUE
    /\ period = "month"
    /\ statsMode = "group"
    /\ selectedGroupId = "all"
    /\ selectedStudentId = "all"
    /\ selectedDate = now
    /\ expectedSessionsMemo = getExpectedSessions("month")
    /\ dashRecords = <<>>
    /\ dashStudents = <<>>
    /\ absences = <<>>
    /\ dashLoading = TRUE
    /\ error = NoError
    /\ dashSelectedDate = now
    /\ storeRecords \in DashRecordTables
    /\ storeStudents = StudentTable1
    /\ storeAbsences \in DashAbsenceTables
    /\ writesAwaited = <<>>
    /\ inFlight = <<[stage |-> "sent"]>>

RemoveAt(seq, i) == [j \in 1..(Len(seq) - 1) |-> IF j < i THEN seq[j] ELSE seq[j + 1]]

\* the store answers the queries of a fetchData call
ServeFetch(i) ==
    /\ i \in 1..Len(inFlight)
    /\ inFlight[i].stage = "sent"
    /\ inFlight' = [inFlight EXCEPT ![i] =
                       [stage |-> "answered", students |-> storeStudents,
                        records |-> storeRecords, absences |-> storeAbsences]]
    /\ UNCHANGED <<now, statsVars, dashRecords, dashStudents, absences, dashLoading,
                   error, dashSelectedDate, storeRecords, storeStudents,
                   storeAbsences, writesAwaited>>

\* one of the queries of a fetchData call fails
ServeFetchError(i) ==
    /\ i \in 1..Len(inFlight)
    /\ inFlight[i].stage = "sent"
    /\ inFlight' = [inFlight EXCEPT ![i] = [stage |-> "failed"]]
    /\ UNCHANGED <<now, statsVars, dashRecords, dashStudents, absences, dashLoading,
                   error, dashSelectedDate, storeRecords, storeStudents,
                   storeAbsences, writesAwaited>>

\* fetchData after its awaits: the three setters, or the catch, then finally
FetchDataDone(i) ==
    /\ i \in 1..Len(inFlight)
    /\ inFlight[i].stage # "sent"
    /\ IF inFlight[i].stage = "answered"
       THEN /\ dashStudents' = inFlight[i].students
            /\ dashRecords' = inFlight[i].records
            /\ absences' = inFlight[i].absences
            /\ error' = error
       ELSE /\ error' = <<"Failed to load data">>
            /\ UNCHANGED <<dashStudents, dashRecords, absences>>
    /\ dashLoading' = FALSE
    /\ inFlight' = RemoveAt(inFlight, i)
    /\ UNCHANGED <<now, statsVars, dashSelectedDate, storeRecords, storeStudents,
                   storeAbsences, writesAwaited>>

\* the rows of student_absences once a write has been executed
applyWrite(rows, w) ==
    IF w.op = "insert"
    THEN Append(rows, [whatsapp_id_student |-> w.whatsapp_id_student,
                       absence_date |-> w.absence_date])
    ELSE SelectSeq(rows, LAMBDA r :
             ~(r.whatsapp_id_student = w.whatsapp_id_student
               /\ r.absence_date = w.absence_date))

\* the absences the table holds once the inserts still to be executed are in
absencesToCome ==
    Len(storeAbsences)
    + Len(SelectSeq(writesAwaited, LAMBDA w : w.op = "insert" /\ ~w.applied))

\* markAsAbsent up to its await: the button of a listed student who is not
\* absent on the selected date; the insert is sent
MarkAsAbsent(k) ==
    /\ dashboardShown
    /\ Len(writesAwaited) + Len(inFlight) < MaxInFlight
    /\ absencesToCome < MaxAbsences
    /\ \E i \in 1..Len(dashStudents) : dashStudents[i].whatsapp_id_student = k
    /\ k # "null"
    /\ ~isAbsent(k, dashSelectedDate)
    /\ writesAwaited' = Append(writesAwaited,
                               [op |-> "insert", whatsapp_id_student |-> k,
                                absence_date |-> dashSelectedDate, applied |-> FALSE])
    /\ UNCHANGED <<now, statsVars, dashRecords, dashStudents, absences, dashLoading,
                   error, dashSelectedDate, storeRecords, storeStudents,
                   storeAbsences, inFlight>>

\* removeAbsence up to its await: the button of a student absent on the
\* selected date; the delete of the student's rows of that date is sent
RemoveAbsence(k) ==
    /\ dashboardShown
    /\ Len(writesAwaited) + Len(inFlight) < MaxInFlight
    /\ \E i \in 1..Len(dashStudents) : dashStudents[i].whatsapp_id_student = k
    /\ k # "null"
    /\ isAbsent(k, dashSelectedDate)
    /\ writesAwaited' = Append(writesAwaited,
                               [op |-> "delete", whatsapp_id_student |-> k,
                                absence_date |-> dashSelectedDate, applied |-> FALSE])
    /\ UNCHANGED <<now, statsVars, dashRecords, dashStudents, absences, dashLoading,
                   error, dashSelectedDate, storeRecords, storeStudents,
                   storeAbsences, inFlight>>

\* the database executes a write it was sent
WriteApplied(j) ==
    /\ j \in 1..Len(writesAwaited)
    /\ ~writesAwaited[j].applied
    /\ storeAbsences' = applyWrite(storeAbsences, writesAwaited[j])
    /\ writesAwaited' = [writesAwaited EXCEPT ![j].applied = TRUE]
    /\ UNCHANGED <<now, statsVars, dashRecords, dashStudents, absences, dashLoading,
                   error, dashSelectedDate, storeRecords, storeStudents, inFlight>>

\* the write of a handler is answered with an error: the handler alerts and
\* does not fetch
WriteRejected(j) ==
    /\ j \in 1..Len(writesAwaited)
    /\ ~writesAwaited[j].applied
    /\ writesAwaited' = RemoveAt(writesAwaited, j)
    /\ UNCHANGED <<now, statsVars, dashRecords, dashStudents, absences, dashLoading,
                   error, dashSelectedDate, storeRecords, storeStudents,
                   storeAbsences, inFlight>>

\* the write of a handler is answered and the handler calls fetchData, which
\* runs to its first await: setLoading(true); setError(null)
WriteAnswered(j) ==
    /\ j \in 1..Len(writesAwaited)
    /\ writesAwaited[j].applied
    /\ writesAwaited' = RemoveAt(writesAwaited, j)
    /\ dashLoading' = TRUE
    /\ error' = NoError
    /\ inFlight' = Append(inFlight, [stage |-> "sent"])
    /\ UNCHANGED <<now, statsVars, dashRecords, dashStudents, absences,
                   dashSelectedDate, storeRecords, storeStudents, storeAbsences>>

RECURSIVE previousAllowedDay(_)
previousAllowedDay(d) == IF isAllowedDay(d) THEN d ELSE previousAllowedDay(subDays(d, 1))

RECURSIVE nextAllowedDay(_)
nextAllowedDay(d) == IF isAllowedDay(d) THEN d ELSE nextAllowedDay(addDays(d, 1))

goToPreviousDay ==
    /\ dashboardShown
    /\ previousAllowedDay(subDays(dashSelectedDate, 1)) >= now - DashNavDays
    /\ dashSelectedDate' = previousAllowedDay(subDays(dashSelectedDate, 1))
    /\ UNCHANGED <<now, statsVars, dashRecords, dashStudents, absences, dashLoading,
                   error, storeRecords, storeStudents, storeAbsences,
                   writesAwaited, inFlight>>

goToNextDay ==
    /\ dashboardShown
    /\ nextAllowedDay(addDays(dashSelectedDate, 1)) <= now + DashNavDays
    /\ dashSelectedDate' = nextAllowedDay(addDays(dashSelectedDate, 1))
    /\ UNCHANGED <<now, statsVars, dashRecords, dashStudents, absences, dashLoading,
                   error, storeRecords, storeStudents, storeAbsences,
                   writesAwaited, inFlight>>

\* the while loop of handleDateChange from nearestDay on, as the day it ends on
RECURSIVE nearestAllowedDay(_, _)
nearestAllowedDay(nearestDay, attempts) ==
    IF ~isAllowedDay(nearestDay) /\ attempts < 7
    THEN nearestAllowedDay(addDays(nearestDay, 1), attempts + 1)
    ELSE nearestDay

\* the date input: dateStr is a date, or empty when the input was cleared
\* (parseISO('') is an invalid date, format throws and nothing is set)
handleDateChange(dateStr) ==
    /\ dashboardShown
    /\ dashSelectedDate' =
          IF dateStr = <<>> THEN dashSelectedDate
          ELSE IF isAllowedDay(dateStr[1]) THEN dateStr[1]
          ELSE IF isAllowedDay(nearestAllowedDay(dateStr[1], 0))
               THEN nearestAllowedDay(dateStr[1], 0)
               ELSE dashSelectedDate
    /\ UNCHANGED <<now, statsVars, dashRecords, dashStudents, absences, dashLoading,
                   error, storeRecords, storeStudents, storeAbsences,
                   writesAwaited, inFlight>>

\* the Today button: setSelectedDate(format(new Date(), 'yyyy-MM-dd'))
goToToday ==
    /\ dashboardShown
    /\ dashSelectedDate' = now
    /\ UNCHANGED <<now, statsVars, dashRecords, dashStudents, absences, dashLoading,
                   error, storeRecords, storeStudents, storeAbsences,
                   writesAwaited, inFlight>>

NextDashboard ==
    \/ \E i \in 1..MaxInFlight : ServeFetch(i)
    \/ \E i \in 1..MaxInFlight : ServeFetchError(i)
    \/ \E i \in 1..MaxInFlight : FetchDataDone(i)
    \/ \E k \in {"s1", "s2"} : MarkAsAbsent(k)
    \/ \E k \in {"s1", "s2"} : RemoveAbsence(k)
    \/ \E j \in 1..MaxInFlight : WriteApplied(j)
    \/ \E j \in 1..MaxInFlight : WriteRejected(j)
    \/ \E j \in 1..MaxInFlight : WriteAnswered(j)

SpecDashboard == InitDashboard /\ [][NextDashboard]_vars

\* The dashboard opened on each day of a week: the date controls.
DayNavDays == DayNumber(EpochYear, 5, 9) .. DayNumber(EpochYear, 5, 15)

InitDayNav ==
    /\ now \in DayNavDays
    /\ records = <<>>
    /\ students = <<>>
    /\ groups = <<>>
    /\ loading = TRUE
    /\ period = "month"
    /\ statsMode = "group"
    /\ selectedGroupId = "all"
    /\ selectedStudentId = "all"
    /\ selectedDate = now
    /\ expectedSessionsMemo = getExpectedSessions("month")
    /\ dashRecords = <<>>
    /\ dashStudents = <<>>
    /\ absences = <<>>
    /\ dashLoading = TRUE
    /\ error = NoError
    /\ dashSelectedDate = now
    /\ storeRecords \in DashRecordTables
    /\ storeStudents = StudentTable1
    /\ storeAbsences = <<>>
    /\ writesAwaited = <<>>
    /\ inFlight = <<[stage |-> "sent"]>>

NextDayNav ==
    \/ ServeFetch(1)
    \/ FetchDataDone(1)
    \/ goToPreviousDay
    \/ goToNextDay
    \/ goToToday
    \/ \E dateStr \in {<<>>} \cup {<<d>> : d \in (now - DashNavDays)..(now + DashNavDays)} :
          handleDateChange(dateStr)

SpecDayNav == InitDayNav /\ [][NextDayNav]_vars

\* The dashboard opened on the rows of one day: the daily view.
InitDaily ==
    /\ now \in NowDays
    /\ records = <<>>
    /\ students = <<>>
    /\ groups = <<>>
    /\ loading = TRUE
    /\ period = "month"
    /\ statsMode = "group"
    /\ selectedGroupId = "all"
    /\ selectedStudentId = "all"
    /\ selectedDate = now
    /\ expectedSessionsMemo = getExpectedSessions("month")
    /\ dashRecords = <<>>
    /\ dashStudents = <<>>
    /\ absences = <<>>
    /\ dashLoading = TRUE
    /\ error = NoError
    /\ dashSelectedDate = now
    /\ storeRecords \in DailyRecordTables
    /\ storeStudents = StudentTable1
    /\ storeAbsences = <<>>
    /\ writesAwaited = <<>>
    /\ inFlight = <<[stage |-> "sent"]>>

NextDaily ==
    \/ ServeFetch(1)
    \/ ServeFetchError(1)
    \/ FetchDataDone(1)
    \/ goToPreviousDay
    \/ goToNextDay
    \/ goToToday

SpecDaily == InitDaily /\ [][NextDaily]_vars

(***************************************************************************)
(* Properties.                                                             *)
(***************************************************************************)
\* the effective date of a row: its session date if it has one, else the
\* day it was created
EffectiveDate(r) == IF Len(r.session_date) = 1 THEN r.session_date[1] ELSE r.created_at

\* the distinct effective dates of all the rows of recs that carry key
DatesOfKey(recs, key) ==
    {EffectiveDate(recs[i]) : i \in {j \in 1..Len(recs) : recs[j].whatsapp_id_student = key}}

\* the days d, d+1, ..., d+n-1 all belong to D
IsRun(D, d, n) == \A k \in 0..(n - 1) : d + k \in D

\* the length of the longest run of consecutive days in D
LongestRun(D) ==
    IF D = {} THEN 0
    ELSE CHOOSE n \in 1..Cardinality(D) :
            /\ \E d \in D : IsRun(D, d, n)
            /\ \A m \in (n + 1)..Cardinality(D) : ~ \E d \in D : IsRun(D, d, m)

LastDate(D) == CHOOSE d \in D : \A e \in D : e <= d

\* the length of the run of consecutive days that ends on the last day of D
FinalRun(D) ==
    CHOOSE n \in 1..Cardinality(D) :
        /\ IsRun(D, LastDate(D) - n + 1, n)
        /\ LastDate(D) - n \notin D

StatsIndex == 1..Len(studentStats)

\* C1: for every student, maxStreak is the length of the longest run of
\* consecutive calendar days among the distinct effective dates of all the
\* student's records (0 for a student without records); a date set without
\* gaps gives the number of its dates.
C1_MaxStreakIsLongestRun ==
    \A i \in StatsIndex :
        LET D == DatesOfKey(records, studentStats[i].whatsapp_id_student)
        IN /\ studentStats[i].maxStreak = LongestRun(D)
           /\ (D # {} /\ IsRun(D, LastDate(D) - Cardinality(D) + 1, Cardinality(D)))
                 => studentStats[i].maxStreak = Cardinality(D)

\* a student whose dates have a gap of more than one day and whose longest
\* run, of three days or more, is the one still open at the last date
C1_Witness ==
    \E i \in StatsIndex :
        LET D == DatesOfKey(records, studentStats[i].whatsapp_id_student)
        IN /\ D # {}
           /\ Cardinality(D) > FinalRun(D)
           /\ FinalRun(D) >= 3
           /\ studentStats[i].maxStreak = FinalRun(D)

\* C2: currentStreak is the length of the final run when the student's most
\* recent distinct effective date is today or yesterday, and 0 whenever that
\* date is neither today nor yesterday; records on 05-06, 05-07 and 05-10
\* seen after 05-11 give maxStreak 2 and currentStreak 0.
C2_CurrentStreakTodayOrYesterday ==
    \A i \in StatsIndex :
        LET D == DatesOfKey(records, studentStats[i].whatsapp_id_student)
        IN /\ D # {} =>
                 studentStats[i].currentStreak =
                     IF LastDate(D) \in {now, now - 1} THEN FinalRun(D) ELSE 0
           /\ (D = {DayNumber(2024, 5, 6), DayNumber(2024, 5, 7), DayNumber(2024, 5, 10)}
               /\ now > DayNumber(2024, 5, 11))
                 => (studentStats[i].maxStreak = 2 /\ studentStats[i].currentStreak = 0)

\* the rows a student, with a record on day d already, can get one more of
\* on that day: with that session date, written by today, or without a
\* session date, written that day
DuplicateRows(key, d) ==
    {[id |-> 0, whatsapp_id_student |-> key, session_date |-> <<d>>,
      created_at |-> c, duration_minutes |-> <<10>>] : c \in {Min(d, now), Min(d + 1, now)}}
    \cup {[id |-> 0, whatsapp_id_student |-> key, session_date |-> <<>>,
           created_at |-> c, duration_minutes |-> <<10>>] : c \in {d} \cap ((d - 1)..now)}

\* the answer of the records query once row r is stored too
WithRow(recs, r) ==
    SelectSeq(recs, LAMBDA x : x.created_at > r.created_at)
    \o <<r>>
    \o SelectSeq(recs, LAMBDA x : x.created_at <= r.created_at)

\* C3: one more record of a student on a calendar date on which that
\* student has a record already changes neither maxStreak nor currentStreak
\* of that student.
C3_DuplicateKeepsStreaks ==
    \A k \in 1..Len(students) :
        \A d \in DatesOfKey(records, students[k].whatsapp_id_student) :
            \A r \in DuplicateRows(students[k].whatsapp_id_student, d) :
                LET before == streaksOfStudent(students[k], records)
                    after == streaksOfStudent(students[k], WithRow(records, r))
                IN /\ after.maxStreak = before.maxStreak
                   /\ after.currentStreak = before.currentStreak

\* a student with two records on one day inside a streak of two days or more
C3_Witness ==
    \E i \in StatsIndex :
        \E a, b \in 1..Len(records) :
            /\ a # b
            /\ records[a].whatsapp_id_student = studentStats[i].whatsapp_id_student
            /\ records[b].whatsapp_id_student = studentStats[i].whatsapp_id_student
            /\ EffectiveDate(records[a]) = EffectiveDate(records[b])
            /\ studentStats[i].maxStreak >= 2
            /\ studentStats[i].currentStreak >= 2

\* the sum of totalDuration over the per-student results of the members of g
MembersTotal(g) ==
    SumSeq([i \in StatsIndex |->
               IF studentStats[i].group_id = g THEN studentStats[i].totalDuration ELSE 0])

KeysUnique ==
    \A i, j \in 1..Len(students) :
        i # j => students[i].whatsapp_id_student # students[j].whatsapp_id_student

SingleStudentSelected == statsMode = "student" /\ selectedStudentId # "all"

HistoryOfKey(key) == SelectSeq(records, LAMBDA r : r.whatsapp_id_student = key)

\* C5: a student's maxStreak and currentStreak are the same for every period
\* type, reference date and group/student filter: in every view in which the
\* student is listed they are the streaks of the student's entire record
\* history, which depend on the fetched records and the current day only.
C5_StreaksIgnoreView ==
    \A i \in StatsIndex :
        LET history == streaksOf(HistoryOfKey(studentStats[i].whatsapp_id_student))
        IN /\ studentStats[i].maxStreak = history.maxStreak
           /\ studentStats[i].currentStreak = history.currentStreak

\* a view whose period holds none of the rows of a student with a streak of 2
C5_Witness ==
    \E i \in StatsIndex :
        /\ period = "day"
        /\ studentStats[i].sessionsCount = 0
        /\ studentStats[i].maxStreak = 2

\* C6: with a student selected in student mode the group selector has no
\* effect: the filtered rows are the student's rows of the period, and the
\* student's statistics are available and are those of these rows.
C6_GroupSelectorIgnoredForStudent ==
    (~loading /\ SingleStudentSelected) =>
        /\ periodRecords =
              SelectSeq(records, LAMBDA r :
                  /\ r.whatsapp_id_student = selectedStudentId
                  /\ dateRange.start <= EffectiveDate(r)
                  /\ EffectiveDate(r) <= dateRange.end)
        /\ currentStudentData # <<>>
        /\ currentStudentData[1].whatsapp_id_student = selectedStudentId
        /\ currentStudentData[1].sessionsCount = Len(periodRecords)

\* the group of the student a row belongs to (the first student with the
\* row's key), "none" for a row of no student
OwnerGroup(r) ==
    LET owners == {k \in 1..Len(students) :
                      students[k].whatsapp_id_student = r.whatsapp_id_student}
    IN IF owners = {} THEN "none"
       ELSE students[CHOOSE k \in owners : \A m \in owners : k <= m].group_id

PassesFilter(r) ==
    IF SingleStudentSelected THEN r.whatsapp_id_student = selectedStudentId
    ELSE selectedGroupId = "all" \/ OwnerGroup(r) = selectedGroupId

IsSelected(r) == \E j \in 1..Len(periodRecords) : periodRecords[j] = r

\* C7: a record is selected if and only if its effective date d satisfies
\* start <= d <= end for the resolved interval and its owning student passes
\* the group/student filter: the first and the last day of the period are
\* in, the day before start and the day after end are out.
C7_RecordFilter ==
    /\ \A i \in 1..Len(records) :
          IsSelected(records[i]) <=>
              /\ dateRange.start <= EffectiveDate(records[i])
              /\ EffectiveDate(records[i]) <= dateRange.end
              /\ PassesFilter(records[i])
    /\ Len(periodRecords) <= Len(records)

\* a period of more than a day with a row of its first day selected and a
\* row of the day after its end, which passes the filter, not selected
C7_Witness ==
    /\ dateRange.start < dateRange.end
    /\ \E a, b \in 1..Len(records) :
          /\ EffectiveDate(records[a]) = dateRange.start
          /\ IsSelected(records[a])
          /\ EffectiveDate(records[b]) = dateRange.end + 1
          /\ PassesFilter(records[b])
          /\ ~IsSelected(records[b])

\* C8: completionRate is round(sessionCount / expectedSessions * 100), not
\* capped, when expectedSessions > 0, and exactly 100 when expectedSessions
\* is 0, whatever the sessionCount.
C8_CompletionRate ==
    \A i \in StatsIndex :
        LET rate == studentStats[i].completionRate
            count == studentStats[i].sessionsCount
        IN IF expectedSessions > 0
           THEN /\ (2 * rate - 1) * expectedSessions <= 200 * count
                /\ 200 * count < (2 * rate + 1) * expectedSessions
           ELSE rate = 100

\* more sessions than expected: a rate above 100
C8_Witness ==
    \E i \in StatsIndex :
        /\ expectedSessions > 0
        /\ studentStats[i].sessionsCount > expectedSessions
        /\ studentStats[i].completionRate > 100

\* C9: for every period type and student expectedSessions >= 0 and
\* missedSessions >= 0; missedSessions is max(0, expectedSessions -
\* sessionCount) for day, week, month and year, and 0 for all.
C9_MissedSessions ==
    /\ expectedSessions >= 0
    /\ \A i \in StatsIndex :
          LET missed == studentStats[i].missedSessions
              short == expectedSessions - studentStats[i].sessionsCount
          IN /\ missed >= 0
             /\ period \in {"day", "week", "month", "year"} =>
                   missed = (IF short > 0 THEN short ELSE 0)
             /\ period = "all" => missed = 0

\* a bounded period with more sessions than expected and nothing missed
C9_Witness ==
    \E i \in StatsIndex :
        /\ period # "all"
        /\ expectedSessions > 0
        /\ studentStats[i].sessionsCount > expectedSessions
        /\ studentStats[i].missedSessions = 0

InScope(student) == selectedGroupId = "all" \/ student.group_id = selectedGroupId

HasRowInPeriod(key) ==
    \E j \in 1..Len(periodRecords) : periodRecords[j].whatsapp_id_student = key

\* C10: every student in scope (every student of the selected group, every
\* student under 'all') appears exactly once in the per-student output,
\* also without a record in the window, and then with totalDuration,
\* sessionCount and avgDuration 0.
C10_EveryStudentListedOnce ==
    \A k \in 1..Len(students) :
        InScope(students[k]) =>
            /\ Cardinality({i \in StatsIndex : studentStats[i].id = students[k].id}) = 1
            /\ \A i \in StatsIndex :
                  (studentStats[i].id = students[k].id
                   /\ ~HasRowInPeriod(students[k].whatsapp_id_student))
                      => /\ studentStats[i].totalDuration = 0
                         /\ studentStats[i].sessionsCount = 0
                         /\ studentStats[i].avgDuration = 0

\* a student in scope whose rows all lie outside the window, listed with
\* zeros beside a student with a row in it
C10_Witness ==
    \E i, j \in StatsIndex :
        /\ ~HasRowInPeriod(studentStats[i].whatsapp_id_student)
        /\ DatesOfKey(records, studentStats[i].whatsapp_id_student) # {}
        /\ studentStats[i].sessionsCount = 0
        /\ studentStats[j].sessionsCount > 0

\* the student with key k has an absence on day d in the dashboard's absences
AbsenceRecorded(k, d) ==
    \E i \in 1..Len(absences) :
        absences[i].whatsapp_id_student = k /\ absences[i].absence_date = d

\* C11: an excused absence is excluded from the 'missing' counts: a student
\* with an absence recorded for a date and no record on it is not counted in
\* the daily missing count, and the weekday of the absence is not in the
\* student's weekly list of missing days.
C11_AbsentIsNotMissing ==
    dashboardShown =>
        /\ totalMissing =
              Cardinality({i \in 1..Len(dashStudents) :
                  /\ ~dailyStudentActivity[i].hasRecord
                  /\ ~AbsenceRecorded(dashStudents[i].whatsapp_id_student, dashSelectedDate)})
        /\ \A i \in 1..Len(dashStudents) : \A d \in weekStart..weekEnd :
              AbsenceRecorded(dashStudents[i].whatsapp_id_student, d)
                  => formatEEEE(d) \notin dashboardStudentStats[i].missingDays

\* the sum of the durations of rows, a negative or missing duration as 0
ClampedTotal(rows) ==
    SumSeq([i \in 1..Len(rows) |->
               IF rows[i].duration_minutes # <<>> /\ rows[i].duration_minutes[1] > 0
               THEN rows[i].duration_minutes[1] ELSE 0])

\* C12: a record whose duration is negative or missing contributes 0 to
\* every duration total: each student's and each group's totalDuration is
\* the sum of the positive durations of its rows of the period, and so is
\* never negative.
C12_BadDurationCountsZero ==
    /\ \A i \in StatsIndex :
          /\ studentStats[i].totalDuration >= 0
          /\ studentStats[i].totalDuration =
                ClampedTotal(SelectSeq(periodRecords, LAMBDA r :
                    r.whatsapp_id_student = studentStats[i].whatsapp_id_student))
    /\ \A g \in 1..Len(groups) :
          /\ groupStats[g].totalDuration >= 0
          /\ groupStats[g].totalDuration = ClampedTotal(groupRecords(groups[g]))

\* C13: when a fetch fails, the statistics view ends in a state that differs
\* from the one a successful load of empty collections ends in: no step of
\* the page is at once the end of a failed fetchData and the end of a
\* fetchData that was answered with no rows.
C13_FailureIsDistinct == [][~(FetchDataError /\ FetchDataEmpty)]_vars

\* C14: running the derivation again on the same records, students, groups,
\* period type, reference date, filter and current date gives equal results,
\* with nothing left behind by an earlier run: the expectedSessions the page
\* holds, and the missedSessions and completionRate of every student, are
\* those a run from scratch computes on the page's present inputs.
C14_RerunGivesEqualResults ==
    /\ expectedSessions = getExpectedSessions(period)
    /\ \A i \in StatsIndex :
          /\ studentStats[i].missedSessions =
                missedSessionsOf(period, getExpectedSessions(period),
                                 studentStats[i].sessionsCount)
          /\ studentStats[i].completionRate =
                completionRateOf(getExpectedSessions(period), studentStats[i].sessionsCount)

\* Monday, Tuesday, Thursday and Friday as indices of getDay
RequiredWeekdays == {1, 2, 4, 5}

C16_IntervalOfReferenceDate ==
    LET start == dateRange.start
        end == dateRange.end
    IN /\ period # "all" => (start <= selectedDate /\ selectedDate <= end)
       /\ period = "day" => (start = selectedDate /\ end = selectedDate)
       /\ period = "week" =>
             /\ getDay(start) = 1
             /\ getDay(end) = 0
             /\ end - start + 1 = 7
       /\ period = "month" =>
             /\ getDate(start) = 1
             /\ getMonth(start) = getMonth(selectedDate)
             /\ getYear(start) = getYear(selectedDate)
             /\ getMonth(end) = getMonth(selectedDate)
             /\ getYear(end) = getYear(selectedDate)
             /\ getMonth(end + 1) # getMonth(end)
       /\ period = "year" =>
             /\ getDate(start) = 1 /\ getMonth(start) = 1
             /\ getDate(end) = 31 /\ getMonth(end) = 12
             /\ getYear(start) = getYear(selectedDate)
             /\ getYear(end) = getYear(selectedDate)

\* a week whose Monday lies in the month before the reference date's, after
\* the reference date was moved
C16_Witness ==
    /\ period = "week"
    /\ selectedDate # now
    /\ getMonth(dateRange.start) # getMonth(selectedDate)
    /\ getDay(selectedDate) # 1

\* C17: with period day, week, month or year, next moves to the period that
\* starts the day after the old interval ends and previous to the one that
\* ends the day before the old interval starts, for every reference date,
\* month ends and Feb 29 among them; Current resolves around today.
C17_NavigationIsAdjacent ==
    [][/\ NextPeriod => dateRange'.start = dateRange.end + 1
       /\ Previous => dateRange'.end = dateRange.start - 1
       /\ Current => (dateRange'.start <= now /\ now <= dateRange'.end)]_vars

\* the reference date was moved from the 31st of a month to a shorter month
C17_Witness ==
    /\ period = "month"
    /\ getDate(now) = 31
    /\ getDate(selectedDate) < 31
    /\ selectedDate = endOfMonth(selectedDate)

(***************************************************************************)
(* Badges.                                                                 *)
(***************************************************************************)
StreakTiers == {"legend", "fire", "warming-up"}

\* the hours of the rows of a history that carry a sending time
HoursBefore(rows, h) ==
    Cardinality({j \in 1..Len(rows) : rows[j].time_sent # <<>> /\ rows[j].time_sent[1] < h})

\* C18: a student holds at most one streak-tier badge, chosen by maxStreak:
\* Legend from 30, On Fire from 10 to 29, Warming Up from 3 to 9, none below 3.
C18_OneStreakTier ==
    \A i \in 1..Len(filteredStudents) :
        LET m == studentStats[i].maxStreak
            tiers == studentBadges[i] \cap StreakTiers
        IN  /\ Cardinality(tiers) <= 1
            /\ ("legend" \in tiers) <=> (m >= 30)
            /\ ("fire" \in tiers) <=> (m >= 10 /\ m <= 29)
            /\ ("warming-up" \in tiers) <=> (m >= 3 /\ m <= 9)
            /\ (m < 3) => tiers = {}

\* C18: a student with a longest streak of 30 days holds Legend and no other tier
C18_Witness ==
    /\ ~loading
    /\ \E i \in 1..Len(filteredStudents) :
        /\ studentStats[i].maxStreak >= 30
        /\ studentBadges[i] \cap StreakTiers = {"legend"}

\* C19: the timing badges are given only to a student with more than 5
\* historical records; Early Bird exactly when more than 30% of them were sent
\* before hour 9, Night Owl exactly when more than 30% were sent at hour 20 or
\* later; the two are independent.
C19_TimingBadges ==
    \A i \in 1..Len(filteredStudents) :
        LET rows == HistoryOfKey(filteredStudents[i].whatsapp_id_student)
            n == Len(rows)
            early == HoursBefore(rows, 9)
            late == HoursBefore(rows, 24) - HoursBefore(rows, 20)
        IN  /\ ("early-bird" \in studentBadges[i]) <=> (n > 5 /\ 10 * early > 3 * n)
            /\ ("night-owl" \in studentBadges[i]) <=> (n > 5 /\ 10 * late > 3 * n)

\* C19: six records, all sent before hour 9: Early Bird and not Night Owl
C19_Witness ==
    /\ ~loading
    /\ \E i \in 1..Len(filteredStudents) :
        LET rows == HistoryOfKey(filteredStudents[i].whatsapp_id_student)
        IN  /\ Len(rows) = 6
            /\ HoursBefore(rows, 9) = 6
            /\ "early-bird" \in studentBadges[i]
            /\ "night-owl" \notin studentBadges[i]

\* C20: Perfectionist is held exactly when the completion rate of the view is
\* 100 and the student has more than 5 historical records.
C20_Perfectionist ==
    \A i \in 1..Len(filteredStudents) :
        ("perfectionist" \in studentBadges[i])
            <=> (/\ studentStats[i].completionRate = 100
                 /\ Len(HistoryOfKey(filteredStudents[i].whatsapp_id_student)) > 5)

\* C20: in a week view a student with more than 5 historical records and a
\* completion rate of 100 holds Perfectionist
C20_Witness ==
    /\ ~loading
    /\ period = "week"
    /\ \E i \in 1..Len(filteredStudents) :
        /\ studentStats[i].completionRate = 100
        /\ Len(HistoryOfKey(filteredStudents[i].whatsapp_id_student)) > 5
        /\ "perfectionist" \in studentBadges[i]

(***************************************************************************)
(* The group rollup.                                                       *)
(***************************************************************************)
\* the students currently assigned to group g, by index in students
MembersOf(g) == {k \in 1..Len(students) : students[k].group_id = g}

\* the rows (by index in records) of the members of g dated in the interval
RowsOfGroup(g) ==
    {j \in 1..Len(records) :
        /\ \E k \in MembersOf(g) :
              students[k].whatsapp_id_student = records[j].whatsapp_id_student
        /\ EffectiveDate(records[j]) \in dateRange.start .. dateRange.end}

RECURSIVE MinutesOfRows(_)
MinutesOfRows(J) ==
    IF J = {} THEN 0
    ELSE LET j == CHOOSE x \in J : TRUE
         IN (IF records[j].duration_minutes = <<>> THEN 0
             ELSE records[j].duration_minutes[1]) + MinutesOfRows(J \ {j})

\* a is total / count rounded to the nearest integer, halves upwards
IsRounded(a, total, count) ==
    /\ 2 * a * count <= 2 * total + count
    /\ 2 * total + count < 2 * (a + 1) * count

\* C21: for every group, totalDuration is the sum of the durations of the
\* in-period records of its current members, avgDuration is that sum divided
\* by the number of those records, rounded, and 0 when there are none, and
\* studentCount is the number of students currently assigned to the group.
C21_GroupRollup ==
    \A i \in 1..Len(groups) :
        LET rows == RowsOfGroup(groups[i].id)
            total == MinutesOfRows(rows)
        IN  /\ groupStats[i].totalDuration = total
            /\ IF rows = {} THEN groupStats[i].avgDuration = 0
               ELSE IsRounded(groupStats[i].avgDuration, total, Cardinality(rows))
            /\ groupStats[i].studentCount = Cardinality(MembersOf(groups[i].id))

\* C21: a group of three members, one with 60 minutes, one with 90 and one
\* without a record in the period: totalDuration 150, avgDuration 75,
\* studentCount 3
C21_Witness ==
    /\ ~loading
    /\ \E i \in 1..Len(groups) :
        /\ Cardinality(MembersOf(groups[i].id)) = 3
        /\ Cardinality(RowsOfGroup(groups[i].id)) = 2
        /\ groupStats[i].totalDuration = 150
        /\ groupStats[i].avgDuration = 75
        /\ groupStats[i].studentCount = 3

(***************************************************************************)
(* Session counts.                                                         *)
(***************************************************************************)
\* the rows (by index in records) of the student with this key that are dated
\* in the interval and pass the group/student filter
FilteredRowsOf(key) ==
    {j \in 1..Len(records) :
        /\ records[j].whatsapp_id_student = key
        /\ EffectiveDate(records[j]) \in dateRange.start .. dateRange.end
        /\ PassesFilter(records[j])}

\* C22: sessionsCount is the number of the student's filtered records, several
\* records of one date each counting; the completion rate and the missed
\* sessions are taken from that number, while the streak walk sees each date
\* once.
C22_SessionsNotDeduplicated ==
    \A i \in StatsIndex :
        LET key == studentStats[i].whatsapp_id_student
            rows == FilteredRowsOf(key)
        IN  /\ studentStats[i].sessionsCount = Cardinality(rows)
            /\ expectedSessions > 0 =>
                  IsRounded(studentStats[i].completionRate,
                            100 * Cardinality(rows), expectedSessions)
            /\ period # "all" =>
                  studentStats[i].missedSessions
                      = Max(0, expectedSessions - Cardinality(rows))
            /\ Len(uniqueDates(HistoryOfKey(key))) = Cardinality(DatesOfKey(records, key))

\* C22: two records of one student on the same date of the week in view are
\* two sessions and one day of the streak
C22_Witness ==
    /\ ~loading
    /\ period = "week"
    /\ \E i \in StatsIndex :
        LET key == studentStats[i].whatsapp_id_student
            rows == FilteredRowsOf(key)
        IN  /\ Cardinality(rows) = 2
            /\ Cardinality({EffectiveDate(records[j]) : j \in rows}) = 1
            /\ studentStats[i].sessionsCount = 2
            /\ studentStats[i].maxStreak = 1

(***************************************************************************)
(* The snapshot the derivation runs on.                                    *)
(***************************************************************************)
\* C23: when fetchData returns, records, students and groups are either all
\* three the rows one fetch delivered or all three what they were before; no
\* outcome, the failure of one query included, replaces only some of them.
C23_NoPartialSnapshot ==
    [][(loading /\ ~loading') =>
          \/ UNCHANGED <<students, records, groups>>
          \/ /\ QueryData(students') \in StudentsAnswers
             /\ QueryData(records') \in RecordsAnswers
             /\ QueryData(groups') \in GroupsAnswers]_vars

\* C23: a fetch has returned and all three collections hold its rows
C23_Witness ==
    /\ ~loading
    /\ QueryData(students) \in StudentsAnswers
    /\ QueryData(records) \in RecordsAnswers
    /\ QueryData(groups) \in GroupsAnswers

(***************************************************************************)
(* The daily view of the dashboard.                                        *)
(***************************************************************************)
\* the rows of the student with this key whose session date is the selected date
RowsOfDay(key) ==
    {dashRecords[j] : j \in {k \in 1..Len(dashRecords) :
        /\ dashRecords[k].whatsapp_id_student = key
        /\ dashRecords[k].session_date = <<dashSelectedDate>>}}

\* the rows kept for the daily view
KeptRows(kept) == {kept[j] : j \in 1..Len(kept)}

\* a student's rows of the selected date were all written at different instants
DistinctInstants(key) ==
    \A a, b \in RowsOfDay(key) :
        (a.created_at = b.created_at /\ a.created_time = b.created_time) => a = b

\* one row per student with a row on the selected date, none written before
\* another row of that student and date
OnePerStudent(kept) ==
    /\ \A i, j \in 1..Len(kept) :
          kept[i].whatsapp_id_student = kept[j].whatsapp_id_student => i = j
    /\ \A key \in {"s1", "s2"} :
          /\ RowsOfDay(key) # {} <=>
                \E r \in KeptRows(kept) : r.whatsapp_id_student = key
          /\ \A r \in KeptRows(kept) :
                r.whatsapp_id_student = key =>
                    /\ r \in RowsOfDay(key)
                    /\ \A q \in RowsOfDay(key) : ~createdAfter(q, r)

\* the rows kept when the rows of the selected date are listed in the order q
KeptOf(q) == KeptRows(reduceRecords(q, 1, <<>>))

\* C24 (as stated): for the selected date one record per student is kept, the
\* one with the greatest created_at, and the records kept are the same for
\* every order in which the records are listed.
C24_ChoiceIgnoresListingOrder ==
    /\ OnePerStudent(selectedDateRecords)
    /\ \A q \in Listings(KeptRows(selectedDateRecordsAll)) :
          KeptOf(q) = KeptRows(selectedDateRecords)

\* C24 (amended): one record per student is kept and no record of that student
\* and date has a greater created_at, in every order of listing; the records
\* kept are the same for every order when the records of each student for
\* that date have different created_at values.
C24_MostRecentPerStudent ==
    /\ OnePerStudent(selectedDateRecords)
    /\ \A q \in Listings(KeptRows(selectedDateRecordsAll)) :
          /\ OnePerStudent(reduceRecords(q, 1, <<>>))
          /\ (\A key \in {"s1", "s2"} : DistinctInstants(key)) =>
                KeptOf(q) = KeptRows(selectedDateRecords)

\* C24: three records of one student for the selected date, written at three
\* instants, and the latest one is the one kept
C24_Witness ==
    /\ dashboardShown
    /\ DistinctInstants("s1")
    /\ Cardinality(RowsOfDay("s1")) = 3
    /\ \E r \in KeptRows(selectedDateRecords) :
          /\ r.whatsapp_id_student = "s1"
          /\ \A q \in RowsOfDay("s1") : q # r => createdAfter(r, q)

(***************************************************************************)
(* Attribution of the filtered records.                                    *)
(***************************************************************************)
SessionsTotal == SumSeq([i \in StatsIndex |-> studentStats[i].sessionsCount])

\* the entries of the per-student results a filtered record is counted in
CountedIn(r) ==
    {i \in StatsIndex : studentStats[i].whatsapp_id_student = r.whatsapp_id_student}

\* C25: with unique student keys, for every period and filter the sessionsCount
\* of the per-student results add up to no more than the number of filtered
\* records, each filtered record is counted for at most one student, and the
\* two numbers are equal exactly when every filtered record carries the key
\* of a student in scope.
C25_NoDoubleCounting ==
    KeysUnique =>
        /\ SessionsTotal <= Len(periodRecords)
        /\ \A j \in 1..Len(periodRecords) : Cardinality(CountedIn(periodRecords[j])) <= 1
        /\ SessionsTotal = Len(periodRecords) <=>
              \A j \in 1..Len(periodRecords) :
                  \E k \in 1..Len(filteredStudents) :
                      filteredStudents[k].whatsapp_id_student
                          = periodRecords[j].whatsapp_id_student

\* C25: two filtered records, one of a student in scope and one of a key that
\* belongs to no student in scope: the counts add up to 1
C25_Witness ==
    /\ ~loading
    /\ KeysUnique
    /\ Len(filteredStudents) = 2
    /\ Len(periodRecords) = 2
    /\ SessionsTotal = 1
    /\ \E j \in 1..2 : CountedIn(periodRecords[j]) = {}

(***************************************************************************)
(* Bounds of the streaks.                                                  *)
(***************************************************************************)
\* C26: for every student 0 <= currentStreak <= maxStreak <= the number of
\* distinct effective dates of the student; currentStreak is 0 or the length
\* of the final run; maxStreak is 0 exactly when the student has no records.
C26_StreakBounds ==
    \A i \in StatsIndex :
        LET D == DatesOfKey(records, studentStats[i].whatsapp_id_student)
            st == studentStats[i]
        IN  /\ 0 <= st.currentStreak
            /\ st.currentStreak <= st.maxStreak
            /\ st.maxStreak <= Cardinality(D)
            /\ st.currentStreak = 0 \/ (D # {} /\ st.currentStreak = FinalRun(D))
            /\ st.maxStreak = 0 <=> HistoryOfKey(st.whatsapp_id_student) = <<>>
            /\ HistoryOfKey(st.whatsapp_id_student) # <<>> => st.maxStreak >= 1

\* C26: a student whose dates have a gap: the final run is shorter than the
\* longest run, which is shorter than the number of dates
C26_Witness ==
    /\ ~loading
    /\ \E i \in StatsIndex :
        LET D == DatesOfKey(records, studentStats[i].whatsapp_id_student)
        IN  /\ D # {}
            /\ studentStats[i].currentStreak = FinalRun(D)
            /\ 0 < studentStats[i].currentStreak
            /\ studentStats[i].currentStreak < studentStats[i].maxStreak
            /\ studentStats[i].maxStreak < Cardinality(D)

(***************************************************************************)
(* The frame of the group rollup.                                          *)
(***************************************************************************)
\* a step that changes the stats mode, the group selector or the selected
\* student and nothing else of the page
SelectorStep ==
    /\ <<statsMode, selectedGroupId, selectedStudentId>>'
          # <<statsMode, selectedGroupId, selectedStudentId>>
    /\ UNCHANGED <<now, records, students, groups, loading, period, selectedDate>>

\* C27: a change of the group selector, the stats mode or the selected student
\* leaves every group's totalDuration, sessionsCount, avgDuration and
\* studentCount as they were, and after it every group of the groups
\* collection still has its entry.
C27_RollupIgnoresSelectors ==
    [][SelectorStep =>
          /\ groupStats' = groupStats
          /\ Len(groupStats') = Len(groups)
          /\ \A i \in 1..Len(groups) : groupStats'[i].id = groups[i].id]_vars

\* C27: group g2 is selected and group g1, with records in the period, has
\* its entry in the rollup
C27_Witness ==
    /\ ~loading
    /\ selectedGroupId = "g2"
    /\ Len(groupStats) = 2
    /\ \E i \in 1..Len(groupStats) :
          /\ groupStats[i].id = "g1"
          /\ groupStats[i].sessionsCount > 0

(***************************************************************************)
(* Period switching.                                                       *)
(***************************************************************************)
\* C28: a period type button other than the active one sets the reference
\* date to the current date, the button of the active period type leaves the
\* reference date as it is, and previous, next and Current change the
\* reference date only: not the period type, the group selector, the stats
\* mode or the selected student.
C28_PeriodSwitching ==
    [][/\ \A p \in TimePeriods :
             SetPeriod(p) =>
                 /\ period' = p
                 /\ p # period => selectedDate' = now
                 /\ p = period => selectedDate' = selectedDate
       /\ period' # period => selectedDate' = now
       /\ (Previous \/ NextPeriod \/ Current) =>
             UNCHANGED <<period, selectedGroupId, statsMode, selectedStudentId>>
       /\ (selectedDate' # selectedDate /\ period' = period) =>
             UNCHANGED <<selectedGroupId, statsMode, selectedStudentId>>]_vars

\* C28: the week view moved away from the current week, in student mode with
\* a student selected
C28_Witness ==
    /\ ~loading
    /\ period = "week"
    /\ selectedDate # now
    /\ statsMode = "student"
    /\ selectedStudentId # "all"

(***************************************************************************)
(* Refreshes of the dashboard.                                             *)
(***************************************************************************)
\* every write and every fetchData call has completed, the last without error
AllRefreshesDone ==
    /\ writesAwaited = <<>>
    /\ inFlight = <<>>
    /\ ~dashLoading
    /\ error = NoError

\* C29: once every refresh started by markAsAbsent and removeAbsence has
\* completed, in whatever order the answers arrived, the records, students and
\* absences displayed are the store's contents.
C29_LastFetchWins ==
    AllRefreshesDone =>
        /\ dashRecords = storeRecords
        /\ dashStudents = storeStudents
        /\ absences = storeAbsences

(***************************************************************************)
(* The date controls of the dashboard.                                     *)
(***************************************************************************)
\* Monday, Tuesday, Thursday or Friday
OnRequiredWeekday(d) == getDay(d) \in RequiredWeekdays

\* C30: goToNextDay and goToPreviousDay end and leave the selected date on a
\* required weekday, after (before) the old date, with no required weekday
\* between the two; handleDateChange sets no other day than a required
\* weekday; from a required weekday, goToNextDay and then goToPreviousDay
\* give the date again.
C30_DateNavigation ==
    [][/\ goToNextDay =>
             /\ OnRequiredWeekday(dashSelectedDate')
             /\ dashSelectedDate' > dashSelectedDate
             /\ \A d \in (dashSelectedDate + 1)..(dashSelectedDate' - 1) :
                   ~OnRequiredWeekday(d)
       /\ goToPreviousDay =>
             /\ OnRequiredWeekday(dashSelectedDate')
             /\ dashSelectedDate' < dashSelectedDate
             /\ \A d \in (dashSelectedDate' + 1)..(dashSelectedDate - 1) :
                   ~OnRequiredWeekday(d)
       /\ \A dateStr \in {<<>>} \cup {<<d>> : d \in (now - DashNavDays)..(now + DashNavDays)} :
             (handleDateChange(dateStr) /\ dashSelectedDate' # dashSelectedDate) =>
                 OnRequiredWeekday(dashSelectedDate')
       /\ OnRequiredWeekday(dashSelectedDate) =>
             previousAllowedDay(subDays(nextAllowedDay(addDays(dashSelectedDate, 1)), 1))
                 = dashSelectedDate]_vars

\* C30: the dashboard opened on a Friday, moved to the Monday after
C30_Witness ==
    /\ dashboardShown
    /\ getDay(now) = 5
    /\ dashSelectedDate = now + 3

====
